---- MODULE Spec2Model ----
(***************************************************************************)
(* Identity reconciliation service (Bitespeed assignment).                 *)
(*                                                                         *)
(* The model follows src/src/services/ContactService.ts (the resolver),    *)
(* src/src/entities/Contact.ts (the contact table) and src/src/index.ts    *)
(* (the POST /identify handler).                                           *)
(*                                                                         *)
(* Store model.  The contacts table is a sequence of rows; the row with    *)
(* id i sits at index i (PrimaryGeneratedColumn hands out 1, 2, 3, ...).   *)
(* save() of a new entity appends a row, save() of a loaded entity writes  *)
(* the entity's columns over the row with its id.  Every save() reads the  *)
(* database clock once (CreateDateColumn / UpdateDateColumn) and the clock *)
(* advances with every save.  A find() without ORDER BY returns its rows   *)
(* in an order the database chooses: the order is a nondeterministic       *)
(* permutation of the rows that match.                                     *)
(***************************************************************************)
EXTENDS Integers, Sequences, FiniteSets, TLC

\* ------------------------------------------------------------------ bounds
\* The store never grows beyond MaxRecords rows (guard of every insert).
MaxRecords == 3
\* Calls each concurrent client may make in the interleaved specification.
MaxCalls == 1

\* --------------------------------------------------------------- JS values
\* A request field is a JavaScript value: undefined, null, a string or a number.
Undefined == [t |-> "undefined", s |-> "", n |-> 0]
Null == [t |-> "null", s |-> "", n |-> 0]
Str(x) == [t |-> "string", s |-> x, n |-> 0]
Num(k) == [t |-> "number", s |-> "", n |-> k]

\* JavaScript truthiness of such a value (`if (email)`, `!email`, filter(Boolean)).
Truthy(v) == \/ v.t = "string" /\ v.s # ""
             \/ v.t = "number" /\ v.n # 0

\* Mutant: `x ?? null`, which keeps an empty string.
OrNull_IfUndefined(v) == IF v.t \in {"undefined", "null"} THEN Null ELSE v

\* `x || null`
OrNull(v) == IF Truthy(v) THEN v ELSE Null

\* String(n) for the one-digit numbers the model submits.
Digits == <<"0", "1", "2", "3", "4", "5", "6", "7", "8", "9">>
StringOf(v) == IF v.t = "number" THEN Str(Digits[v.n + 1]) ELSE v

\* The values the model submits to identifyContact: two emails and two phone
\* numbers, an empty email and an absent phone number.
EmailValues == {Str(""), Str("a"), Str("b")}
PhoneValues == {Undefined, Str("1"), Str("2")}

\* ------------------------------------------------------------------ entity
PRIMARY == "primary"
SECONDARY == "secondary"

\* linkedId is a row id or null; ids start at 1, so 0 stands for null (both falsy).
NullId == 0

\* A row of the contacts table.
Contact(id, email, phoneNumber, linkedId, linkPrecedence, createdAt, updatedAt) ==
    [id |-> id, email |-> email, phoneNumber |-> phoneNumber, linkedId |-> linkedId,
     linkPrecedence |-> linkPrecedence, createdAt |-> createdAt,
     updatedAt |-> updatedAt, deletedAt |-> Null]

\* ------------------------------------------------------------------- state
VARIABLES
    store,        \* the contacts table: sequence of rows, row id = index
    clock,        \* the database clock, read by every save
    everPrimary,  \* history: ids of the rows that were inserted as primary
    req,          \* the last submission handed to identifyContact
    resp,         \* what that call returned (or the error it threw)
    pc,           \* interleaved clients: where each handler stands
    local,        \* interleaved clients: each handler's request and in-memory plan
    calls,        \* interleaved clients: calls started so far
    walk          \* a call of findUltimatePrimary taken alone: its loop's state

vars == <<store, clock, everPrimary, req, resp, pc, local, calls, walk>>

Ids(st) == 1..Len(st)

\* ----------------------------------------------------------------- helpers
\* All orderings of a finite set, as sequences without repetition.
RECURSIVE Perms(_)
Perms(S) ==
    IF S = {} THEN {<<>>}
    ELSE UNION {{<<x>> \o q : q \in Perms(S \ {x})} : x \in S}

\* The elements of sequence q that lie in set S, in q's order.
Restrict(q, S) == SelectSeq(q, LAMBDA x : x \in S)

Range(q) == {q[i] : i \in 1..Len(q)}

\* ---------------------------------------------------------- store contract
\* In-memory entity: the row's columns plus the `secondaryContacts` relation,
\* which is an array only when the query asked for it (`loaded`), else undefined.
Entity(row, loaded, secondaryContacts) ==
    [row |-> row, loaded |-> loaded, secondaryContacts |-> secondaryContacts]

\* Rows whose join column linkedId names `id` (the OneToMany side of the relation).
SecondariesOf(st, id) == {i \in Ids(st) : st[i].linkedId = id}

\* repository.findOneBy({ id }): the row, or nothing; no relation is loaded.
FindOneBy(st, id) == IF id \in Ids(st) THEN <<st[id]>> ELSE <<>>

\* WHERE email = :email OR phoneNumber = :phoneNumber, one clause per truthy field.
WhereMatches(st, email, phoneNumber) ==
    {i \in Ids(st) : \/ Truthy(email) /\ st[i].email = email
                     \/ Truthy(phoneNumber) /\ st[i].phoneNumber = phoneNumber}

\* A set of row ids in ascending id order.
RECURSIVE Ascending(_)
Ascending(S) ==
    IF S = {} THEN <<>>
    ELSE LET m == CHOOSE x \in S : \A y \in S : x <= y
         IN  <<m>> \o Ascending(S \ {m})

\* One root entity of find({relations: ["primaryContact", "secondaryContacts"]}):
\* primaryContact is the row linkedId names (<<>> for null), secondaryContacts the
\* rows linked to it (taken in id order); the related entities themselves carry
\* no relations.
RootEntity(st, id) ==
    [row |-> st[id],
     loaded |-> TRUE,
     secondaryContacts |->
        LET ids == Ascending(SecondariesOf(st, id))
        IN  [k \in 1..Len(ids) |-> st[ids[k]]],
     primaryContact |-> FindOneBy(st, st[id].linkedId)]

\* contactRepository.find(...): the matching roots, in the order `ord` in which
\* the database returns them.
InitialMatchingContacts(st, ord) ==
    [k \in 1..Len(ord) |-> RootEntity(st, ord[k])]

\* Mutant: an update stamps createdAt as well as updatedAt.
Save_StampsCreatedAt(st, clk, row) ==
    IF row.id = 0
    THEN Append(st, Contact(Len(st) + 1, row.email, row.phoneNumber, row.linkedId,
                            row.linkPrecedence, clk, clk))
    ELSE [st EXCEPT ![row.id] = Contact(row.id, row.email, row.phoneNumber, row.linkedId,
                                        row.linkPrecedence, clk, clk)]

\* Mutant: an update is held back until a commit (an aborted call loses it).
Save_DefersUpdates(st, clk, row) ==
    IF row.id = 0
    THEN Append(st, Contact(Len(st) + 1, row.email, row.phoneNumber, row.linkedId,
                            row.linkPrecedence, clk, clk))
    ELSE st

\* save(entity): insert when the entity has no id (id 0), else write its columns
\* over the row; createdAt is set on insert only, updatedAt on every save.
Save(st, clk, row) ==
    IF row.id = 0
    THEN Append(st, Contact(Len(st) + 1, row.email, row.phoneNumber, row.linkedId,
                            row.linkPrecedence, clk, clk))
    ELSE [st EXCEPT ![row.id] = Contact(row.id, row.email, row.phoneNumber, row.linkedId,
                                        row.linkPrecedence, @.createdAt, clk)]

\* ----------------------------------------------------- findUltimatePrimary
\* The while loop of findUltimatePrimary; `fuel` caps the walk at the number of
\* rows, which an acyclic chain never exceeds.
RECURSIVE Walk(_, _, _)
Walk(st, current, fuel) ==
    IF fuel > 0 /\ current.row.linkPrecedence = SECONDARY /\ current.row.linkedId # NullId
    THEN LET parent == FindOneBy(st, current.row.linkedId)
         IN  IF parent = <<>>
             THEN current
             ELSE Walk(st, Entity(parent[1], FALSE, <<>>), fuel - 1)
    ELSE current

FindUltimatePrimary(st, contact) == Walk(st, contact, Len(st))

\* No call of findUltimatePrimary is being followed.
NoWalk == [status |-> "none", current |-> <<>>, lookups |-> 0]

\* ----------------------------------------------------------- identifyContact
\* Mutant: the check tests for presence (`=== undefined`) instead of truthiness.
Provided_IfDefined(email, phoneNumber) ==
    email.t \notin {"undefined", "null"} \/ phoneNumber.t \notin {"undefined", "null"}

\* `if (!email && !phoneNumber) throw`: the submissions that pass the check.
Provided(email, phoneNumber) == Truthy(email) \/ Truthy(phoneNumber)

ValidationMessage == "Email or phone number must be provided."
DisappearedMessage == "Primary contact disappeared unexpectedly"

\* What one root of the find contributes to allRelatedContacts (loop body, 56-70).
RelatedOf(st, contact) ==
    IF contact.row.linkPrecedence = PRIMARY
    THEN <<Entity(contact.row, TRUE, contact.secondaryContacts)>>
         \o [k \in 1..Len(contact.secondaryContacts) |->
                Entity(contact.secondaryContacts[k], FALSE, <<>>)]
    ELSE IF contact.primaryContact # <<>>
    THEN LET primary == FindUltimatePrimary(st, Entity(contact.primaryContact[1], FALSE, <<>>))
         IN  <<primary>>
             \o (IF primary.loaded
                 THEN [k \in 1..Len(primary.secondaryContacts) |->
                          Entity(primary.secondaryContacts[k], FALSE, <<>>)]
                 ELSE <<>>)
    ELSE <<>>

RECURSIVE AllRelatedContacts(_, _)
AllRelatedContacts(st, initialMatchingContacts) ==
    IF initialMatchingContacts = <<>>
    THEN <<>>
    ELSE RelatedOf(st, Head(initialMatchingContacts))
         \o AllRelatedContacts(st, Tail(initialMatchingContacts))

\* uniqueContactsMap: a Map keeps a key at the position of its first set() and
\* holds the value of its last set().
UniqueContacts(allRelatedContacts) ==
    LET n == Len(allRelatedContacts)
        first == {i \in 1..n : \A j \in 1..(i - 1) :
                      allRelatedContacts[j].row.id # allRelatedContacts[i].row.id}
        Last(i) == CHOOSE j \in 1..n :
                      /\ allRelatedContacts[j].row.id = allRelatedContacts[i].row.id
                      /\ \A k \in (j + 1)..n :
                            allRelatedContacts[k].row.id # allRelatedContacts[i].row.id
        keys == SelectSeq([i \in 1..n |-> i], LAMBDA i : i \in first)
    IN  [k \in 1..Len(keys) |-> allRelatedContacts[Last(keys[k])]]

\* Array.prototype.sort with (a, b) => a.createdAt - b.createdAt: stable, ascending.
RECURSIVE InsertByCreatedAt(_, _)
InsertByCreatedAt(sorted, c) ==
    IF sorted = <<>> THEN <<c>>
    ELSE IF Head(sorted).row.createdAt <= c.row.createdAt
    THEN <<Head(sorted)>> \o InsertByCreatedAt(Tail(sorted), c)
    ELSE <<c>> \o sorted

\* Mutant: the comparator reversed (b.createdAt - a.createdAt), newest first.
RECURSIVE SortByCreatedAt_Descending(_)
SortByCreatedAt_Descending(contacts) ==
    IF contacts = <<>> THEN <<>>
    ELSE Append(SortByCreatedAt_Descending(
                    SelectSeq(contacts, LAMBDA c : c.row.createdAt > contacts[1].row.createdAt)
                    \o SelectSeq(Tail(contacts),
                                 LAMBDA c : c.row.createdAt <= contacts[1].row.createdAt)),
                contacts[1])

RECURSIVE SortByCreatedAt(_)
SortByCreatedAt(contacts) ==
    IF contacts = <<>> THEN <<>>
    ELSE InsertByCreatedAt(SortByCreatedAt(SubSeq(contacts, 1, Len(contacts) - 1)),
                           contacts[Len(contacts)])

\* existingContacts after lines 50-78.
ExistingContacts(st, ord) ==
    CHOOSE existingContacts \in
        {SortByCreatedAt(UniqueContacts(allRelatedContacts)) :
            allRelatedContacts \in {AllRelatedContacts(st, InitialMatchingContacts(st, ord))}} :
        TRUE

\* Mutant: the primaries taken newest first.
PrimaryContacts_NewestFirst(existingContacts) ==
    LET p == SelectSeq(existingContacts, LAMBDA c : c.row.linkPrecedence = PRIMARY)
    IN  [k \in 1..Len(p) |-> p[Len(p) + 1 - k]]

\* Line 92.
PrimaryContacts(existingContacts) ==
    SelectSeq(existingContacts, LAMBDA c : c.row.linkPrecedence = PRIMARY)

\* Line 93 (and 97): the oldest primary, else the ultimate primary of the oldest contact.
ChosenPrimary(st, existingContacts) ==
    LET primaryContacts == PrimaryContacts(existingContacts)
    IN  IF Len(primaryContacts) > 0
        THEN primaryContacts[1]
        ELSE FindUltimatePrimary(st, existingContacts[1])

\* Mutant: the demotion sets linkedId but leaves linkPrecedence as it was.
DemoteWrites_KeepsPrecedence(otherPrimary, chosenId) ==
    <<[otherPrimary.row EXCEPT !.linkedId = chosenId]>>
    \o (IF otherPrimary.loaded
        THEN [k \in 1..Len(otherPrimary.secondaryContacts) |->
                 [otherPrimary.secondaryContacts[k] EXCEPT !.linkedId = chosenId]]
        ELSE <<>>)

\* Mutant: the demotion sets linkPrecedence but not linkedId.
DemoteWrites_KeepsLink(otherPrimary, chosenId) ==
    <<[otherPrimary.row EXCEPT !.linkPrecedence = SECONDARY]>>
    \o (IF otherPrimary.loaded
        THEN [k \in 1..Len(otherPrimary.secondaryContacts) |->
                 [otherPrimary.secondaryContacts[k] EXCEPT !.linkedId = chosenId]]
        ELSE <<>>)

\* Mutant: the demoted primary is linked to its own id (otherPrimary.id for
\* chosenPrimary.id).
DemoteWrites_SelfLink(otherPrimary, chosenId) ==
    <<[otherPrimary.row EXCEPT !.linkedId = otherPrimary.row.id,
                               !.linkPrecedence = SECONDARY]>>
    \o (IF otherPrimary.loaded
        THEN [k \in 1..Len(otherPrimary.secondaryContacts) |->
                 [otherPrimary.secondaryContacts[k] EXCEPT !.linkedId = chosenId]]
        ELSE <<>>)

\* Lines 99-109 for one otherPrimary: the rows saved, in order.
DemoteWrites(otherPrimary, chosenId) ==
    <<[otherPrimary.row EXCEPT !.linkedId = chosenId, !.linkPrecedence = SECONDARY]>>
    \o (IF otherPrimary.loaded
        THEN [k \in 1..Len(otherPrimary.secondaryContacts) |->
                 [otherPrimary.secondaryContacts[k] EXCEPT !.linkedId = chosenId]]
        ELSE <<>>)

\* Lines 96-111: the saves of the merge, in order.
RECURSIVE MergeFrom(_, _, _)
MergeFrom(primaryContacts, i, chosenId) ==
    IF i > Len(primaryContacts) THEN <<>>
    ELSE DemoteWrites(primaryContacts[i], chosenId)
         \o MergeFrom(primaryContacts, i + 1, chosenId)

MergeWrites(primaryContacts, chosenId) ==
    IF Len(primaryContacts) > 1 THEN MergeFrom(primaryContacts, 2, chosenId) ELSE <<>>

\* Lines 114-118.
CurrentEmails(existingContacts) ==
    {v \in {existingContacts[k].row.email : k \in 1..Len(existingContacts)} : Truthy(v)}
CurrentPhoneNumbers(existingContacts) ==
    {v \in {existingContacts[k].row.phoneNumber : k \in 1..Len(existingContacts)} : Truthy(v)}

IsNewEmail(existingContacts, email) ==
    Truthy(email) /\ email \notin CurrentEmails(existingContacts)
IsNewPhoneNumber(existingContacts, phoneNumber) ==
    Truthy(phoneNumber) /\ phoneNumber \notin CurrentPhoneNumbers(existingContacts)

\* Lines 120-129: whether a new secondary is inserted.
CreatesSecondary(existingContacts, email, phoneNumber) ==
    /\ IsNewEmail(existingContacts, email) \/ IsNewPhoneNumber(existingContacts, phoneNumber)
    /\ ~ /\ Truthy(email) /\ Truthy(phoneNumber)
         /\ \E k \in 1..Len(existingContacts) :
               /\ existingContacts[k].row.email = email
               /\ existingContacts[k].row.phoneNumber = phoneNumber

\* Mutant: the submitted values stored as they came, without `|| null`.
NewPrimaryContact_AsSubmitted(email, phoneNumber) ==
    Contact(0, email, phoneNumber, NullId, PRIMARY, 0, 0)

\* Lines 82-86: the entity of a fresh primary (no id yet).
NewPrimaryContact(email, phoneNumber) ==
    Contact(0, OrNull(email), OrNull(phoneNumber), NullId, PRIMARY, 0, 0)

\* Mutant: the new secondary created without its linkedId.
NewSecondaryContact_Unlinked(email, phoneNumber, chosenId) ==
    Contact(0, OrNull(email), OrNull(phoneNumber), NullId, SECONDARY, 0, 0)

\* Lines 130-135: the entity of a new secondary (no id yet).
NewSecondaryContact(email, phoneNumber, chosenId) ==
    Contact(0, OrNull(email), OrNull(phoneNumber), chosenId, SECONDARY, 0, 0)

\* Lines 80-139 on the existingContacts of lines 50-78: whether the submission
\* is fresh, the chosen primary's id and the entities saved, in the order of the saves.
PlanFor(st, email, phoneNumber, existingContacts) ==
    IF Len(existingContacts) = 0
    THEN [fresh |-> TRUE, chosenId |-> NullId,
          writes |-> <<NewPrimaryContact(email, phoneNumber)>>]
    ELSE CHOOSE plan \in
            {[fresh |-> FALSE, chosenId |-> chosenId,
              writes |-> MergeWrites(PrimaryContacts(existingContacts), chosenId)
                         \o (IF CreatesSecondary(existingContacts, email, phoneNumber)
                             THEN <<NewSecondaryContact(email, phoneNumber, chosenId)>>
                             ELSE <<>>)] :
                chosenId \in {ChosenPrimary(st, existingContacts).row.id}} :
            TRUE

\* Everything identifyContact decides from what it read (lines 50-139), when the
\* find returns the matching roots in order `ord`.  (A set {e(x) : x \in {v}}
\* evaluates v once and names its value x.)
Plan(st, email, phoneNumber, ord) ==
    CHOOSE plan \in
        {PlanFor(st, email, phoneNumber, existingContacts) :
            existingContacts \in {ExistingContacts(st, ord)}} :
        TRUE

\* The saves of a plan, one after the other, each at its own clock reading.
RECURSIVE ApplyWrites(_, _, _)
ApplyWrites(st, clk, writes) ==
    IF writes = <<>> THEN [store |-> st, clock |-> clk]
    ELSE ApplyWrites(Save(st, clk, Head(writes)), clk + 1, Tail(writes))

\* ------------------------------------------------------------ formatResponse
\* The elements of a JavaScript Set filled from `values`: truthy ones, first
\* occurrence kept, insertion order.
RECURSIVE SetOrder(_)
SetOrder(values) ==
    IF values = <<>> THEN <<>>
    ELSE LET rest == SetOrder(SubSeq(values, 1, Len(values) - 1))
             v == values[Len(values)]
         IN  IF Truthy(v) /\ v \notin Range(rest) THEN Append(rest, v) ELSE rest

\* [own, ...Array.from(set).filter(x => x !== own)].filter(Boolean), as strings.
Distinct(own, values) ==
    LET all == <<own>> \o SelectSeq(SetOrder(<<own>> \o values), LAMBDA x : x # own)
        kept == SelectSeq(all, Truthy)
    IN  [k \in 1..Len(kept) |-> kept[k].s]

\* ids.sort((a, b) => a - b)
RECURSIVE SortAscending(_)
SortAscending(ids) ==
    IF ids = <<>> THEN <<>>
    ELSE LET m == CHOOSE k \in 1..Len(ids) : \A j \in 1..Len(ids) : ids[k] <= ids[j]
         IN  <<ids[m]>> \o SortAscending(SubSeq(ids, 1, m - 1) \o SubSeq(ids, m + 1, Len(ids)))

FormatResponse(primary, secondaries) ==
    LET allContacts == <<primary>> \o secondaries
    IN  [primaryContactId |-> primary.id,
         emails |-> Distinct(primary.email,
                             [k \in 1..Len(allContacts) |-> allContacts[k].email]),
         phoneNumbers |-> Distinct(primary.phoneNumber,
                                   [k \in 1..Len(allContacts) |-> allContacts[k].phoneNumber]),
         secondaryContactIds |->
             SortAscending([k \in 1..Len(secondaries) |-> secondaries[k].id])]

\* Lines 142-150: findOne({where: {id}, relations: ["secondaryContacts"]}) and the
\* response built from the primary and the rows linked to it (taken in id order).
FinalResponse(st, chosenId) ==
    LET ids == Ascending(SecondariesOf(st, chosenId))
    IN  FormatResponse(st[chosenId], [k \in 1..Len(ids) |-> st[ids[k]]])

\* ------------------------------------------------------------------ results
EmptyView == [primaryContactId |-> 0, emails |-> <<>>, phoneNumbers |-> <<>>,
              secondaryContactIds |-> <<>>]
NoCall == [status |-> "none", error |-> "", contact |-> EmptyView]
Returned(view) == [status |-> "returned", error |-> "", contact |-> view]
Threw(message) == [status |-> "threw", error |-> message, contact |-> EmptyView]

Request(email, phoneNumber) == [email |-> email, phoneNumber |-> phoneNumber]

\* ------------------------------------------- sequential calls (Spec)
\* Two HTTP clients; Node runs their handlers interleaved at every await.
Clients == {1, 2}

\* A handler's locals: the request body, what identifyContact decided after its
\* find, the saves still to do, the entities whose save resolved (each with the
\* clock reading of its save), the entity it inserted, and the HTTP result.
Idle == [body |-> Request(Undefined, Undefined), fresh |-> FALSE, chosenId |-> NullId,
         writes |-> <<>>, saved |-> <<>>, newId |-> NullId, accessed |-> FALSE,
         thrown |-> "", status |-> 0, error |-> "", view |-> EmptyView]

Init ==
    /\ store = <<>>
    /\ clock = 1
    /\ everPrimary = {}
    /\ req = Request(Undefined, Undefined)
    /\ resp = NoCall
    /\ pc = [c \in Clients |-> "idle"]
    /\ local = [c \in Clients |-> Idle]
    /\ calls = [c \in Clients |-> 0]
    /\ walk = NoWalk

\* Lines 87-88 and 142-150: the view returned once the saves of `plan` are done.
ViewAfter(st, plan) ==
    IF plan.fresh
    THEN FormatResponse(st[Len(st)], <<>>)
    ELSE FinalResponse(st, plan.chosenId)

\* The store, the clock and the view after one whole call of identifyContact on
\* store `st`, when the find returns the matching roots in order `ord`.
Outcome(st, clk, email, phoneNumber, ord) ==
    CHOOSE out \in
        UNION {{[store |-> after.store, clock |-> after.clock, fresh |-> plan.fresh,
                 view |-> ViewAfter(after.store, plan)] :
                    after \in {ApplyWrites(st, clk, plan.writes)}} :
               plan \in {Plan(st, email, phoneNumber, ord)}} :
        TRUE

\* One whole call of identifyContact that passes the validation, run alone.
IdentifyContact(email, phoneNumber) ==
    /\ Provided(email, phoneNumber)
    /\ \E ord \in Perms(WhereMatches(store, email, phoneNumber)) :
          \E out \in {Outcome(store, clock, email, phoneNumber, ord)} :
              /\ Len(out.store) <= MaxRecords
              /\ store' = out.store
              /\ clock' = out.clock
              /\ everPrimary' = IF out.fresh THEN everPrimary \cup {Len(out.store)}
                                ELSE everPrimary
              /\ resp' = Returned(out.view)
    /\ req' = Request(email, phoneNumber)
    /\ UNCHANGED <<pc, local, calls, walk>>

\* A call that fails the validation of lines 29-36.
IdentifyContactRejected(email, phoneNumber) ==
    /\ ~Provided(email, phoneNumber)
    /\ req' = Request(email, phoneNumber)
    /\ resp' = Threw(ValidationMessage)
    /\ UNCHANGED <<store, clock, everPrimary, pc, local, calls, walk>>

Next ==
    \E email \in EmailValues, phoneNumber \in PhoneValues :
        \/ IdentifyContact(email, phoneNumber)
        \/ IdentifyContactRejected(email, phoneNumber)

Spec == Init /\ [][Next]_vars

\* --------------------------------- interleaved handlers (SpecClients)
\* The request bodies the clients post: phoneNumber may be a JSON number.
BodyEmails == {Str(""), Str("a")}
BodyPhoneNumbers == {Undefined, Str("1"), Num(0), Num(1)}

InternalServerError == "Internal Server Error"

\* index.ts 28-30: a truthy phoneNumber that is no string is replaced by String(it).
CoercePhoneNumber(phoneNumber) ==
    IF Truthy(phoneNumber) /\ phoneNumber.t # "string"
    THEN StringOf(phoneNumber)
    ELSE phoneNumber

\* What identifyContact receives for a body.
DataOf(body) == Request(body.email, CoercePhoneNumber(body.phoneNumber))

\* index.ts 37-41: the status for an error caught from identifyContact.
StatusFor(message) == IF message = ValidationMessage THEN 400 ELSE 500

\* index.ts 38-40: the error body sent with that status.
ErrorBodyFor(message) ==
    IF message = ValidationMessage THEN message ELSE InternalServerError

\* The catch block of the handler: the call threw `message`.
Caught(l, message) ==
    [l EXCEPT !.thrown = message, !.status = StatusFor(message),
              !.error = ErrorBodyFor(message), !.writes = <<>>]

\* A store of two unrelated primaries, as two sequential calls leave it:
\* identifyContact({email: "a"}) and then identifyContact({phoneNumber: "1"}).
Seeded ==
    Outcome(Outcome(<<>>, 1, Str("a"), Undefined, <<>>).store, 2,
            Str(""), Str("1"), <<>>)

\* A store of a lone primary and a primary with a secondary, as three sequential
\* calls leave it: identifyContact({email: "a"}), then ({email: "b",
\* phoneNumber: "1"}), then ({email: "b", phoneNumber: "2"}).
SeededCluster ==
    LET first == Outcome(<<>>, 1, Str("a"), Undefined, <<>>)
        second == Outcome(first.store, first.clock, Str("b"), Str("1"), <<>>)
    IN  Outcome(second.store, second.clock, Str("b"), Str("2"), <<2>>)

\* The stores the handlers may start on.
InitialStores ==
    {[store |-> <<>>, clock |-> 1, everPrimary |-> {}],
     [store |-> Seeded.store, clock |-> Seeded.clock, everPrimary |-> {1, 2}],
     [store |-> SeededCluster.store, clock |-> SeededCluster.clock, everPrimary |-> {1, 2}]}

InitClients ==
    /\ \E start \in InitialStores :
          /\ store = start.store
          /\ clock = start.clock
          /\ everPrimary = start.everPrimary
    /\ req = Request(Undefined, Undefined)
    /\ resp = NoCall
    /\ pc = [c \in Clients |-> "idle"]
    /\ local = [c \in Clients |-> Idle]
    /\ calls = [c \in Clients |-> 0]
    /\ walk = NoWalk

\* POST /identify arrives: the body is coerced and identifyContact validates it
\* (index.ts 25-33, ContactService.ts 27-36); an invalid one is answered at once.
Receive(c, email, phoneNumber) ==
    /\ pc[c] \in {"idle", "done"}
    /\ calls[c] < MaxCalls
    /\ calls' = [calls EXCEPT ![c] = @ + 1]
    /\ LET body == Request(email, phoneNumber)
           data == DataOf(body)
       IN  IF Provided(data.email, data.phoneNumber)
           THEN /\ pc' = [pc EXCEPT ![c] = "find"]
                /\ local' = [local EXCEPT ![c] = [Idle EXCEPT !.body = body]]
           ELSE /\ pc' = [pc EXCEPT ![c] = "done"]
                /\ local' = [local EXCEPT ![c] =
                                Caught([Idle EXCEPT !.body = body], ValidationMessage)]
    /\ UNCHANGED <<store, clock, everPrimary, req, resp, walk>>

\* The find of lines 50-53 resolves and the handler runs to its first save
\* (lines 55-129); the lookups of findUltimatePrimary are taken with the find.
Find(c) ==
    /\ pc[c] = "find"
    /\ LET data == DataOf(local[c].body)
       IN  \E ord \in Perms(WhereMatches(store, data.email, data.phoneNumber)) :
           \E plan \in {Plan(store, data.email, data.phoneNumber, ord)} :
              /\ local' = [local EXCEPT ![c] =
                              [local[c] EXCEPT !.fresh = plan.fresh,
                                               !.chosenId = plan.chosenId,
                                               !.writes = plan.writes, !.accessed = TRUE]]
              /\ pc' = [pc EXCEPT ![c] = IF plan.writes = <<>> THEN "respond" ELSE "save"]
    /\ UNCHANGED <<store, clock, everPrimary, req, resp, calls, walk>>

\* One save() resolves (lines 87, 102, 107 or 136).
SaveNext(c) ==
    /\ pc[c] = "save"
    /\ LET l == local[c]
           entity == Head(l.writes)
           rest == Tail(l.writes)
       IN  /\ entity.id = 0 => Len(store) < MaxRecords
           /\ store' = Save(store, clock, entity)
           /\ clock' = clock + 1
           /\ everPrimary' = IF entity.id = 0 /\ entity.linkPrecedence = PRIMARY
                             THEN everPrimary \cup {Len(store) + 1}
                             ELSE everPrimary
           /\ local' = [local EXCEPT ![c] =
                           [l EXCEPT !.writes = rest, !.accessed = TRUE,
                                     !.saved = Append(@, [row |-> [entity EXCEPT !.id =
                                                            IF entity.id = 0
                                                            THEN Len(store) + 1
                                                            ELSE entity.id],
                                                          at |-> clock]),
                                     !.newId = IF entity.id = 0 THEN Len(store) + 1
                                               ELSE l.newId]]
           /\ pc' = [pc EXCEPT ![c] = IF rest = <<>> THEN "respond" ELSE "save"]
    /\ UNCHANGED <<req, resp, calls, walk>>

\* The response: formatResponse(newContact, []) for a fresh identity (line 88),
\* else the findOne of lines 142-146 and formatResponse (line 150); status 200.
Respond(c) ==
    /\ pc[c] = "respond"
    /\ pc' = [pc EXCEPT ![c] = "done"]
    /\ LET l == local[c]
       IN  local' = [local EXCEPT ![c] =
              IF l.fresh
              THEN [l EXCEPT !.status = 200, !.view = FormatResponse(store[l.newId], <<>>)]
              ELSE IF l.chosenId \in Ids(store)
              THEN [l EXCEPT !.status = 200, !.view = FinalResponse(store, l.chosenId)]
              ELSE Caught(l, DisappearedMessage)]
    /\ UNCHANGED <<store, clock, everPrimary, req, resp, calls, walk>>

\* A store call (find, save, findOne) rejects: the handler's catch answers 500.
StoreFails(c) ==
    /\ \/ pc[c] \in {"find", "save"}
       \/ pc[c] = "respond" /\ ~local[c].fresh
    /\ pc' = [pc EXCEPT ![c] = "done"]
    /\ local' = [local EXCEPT ![c] = Caught(local[c], "store call rejected")]
    /\ UNCHANGED <<store, clock, everPrimary, req, resp, calls, walk>>

NextClients ==
    \E c \in Clients :
        \/ \E email \in BodyEmails, phoneNumber \in BodyPhoneNumbers :
              Receive(c, email, phoneNumber)
        \/ Find(c)
        \/ SaveNext(c)
        \/ Respond(c)
        \/ StoreFails(c)

SpecClients == InitClients /\ [][NextClients]_vars

\* ------------------------------- findUltimatePrimary alone (SpecWalk)
\* Rows of the tables the walk is run on, consistent or not.
MaxWalkRows == 2
\* findOneBy calls followed per walk (more than any walk without a repeat needs).
MaxLookups == MaxWalkRows + 2

\* Every table of 1..MaxWalkRows rows in which each row is primary or secondary
\* and its linkedId is null, the id of any row (itself included) or an id that
\* no row has.
WalkStores ==
    UNION {{[i \in 1..n |-> Contact(i, Str("a"), Null, f[i][1], f[i][2], i, i)] :
               f \in [1..n -> (0..(n + 1)) \X {PRIMARY, SECONDARY}]} :
           n \in 1..MaxWalkRows}

\* findUltimatePrimary(contact) is called on some row of some table.
InitWalk ==
    /\ store \in WalkStores
    /\ \E i \in Ids(store) :
          walk = [status |-> "walking", current |-> <<store[i]>>, lookups |-> 0]
    /\ clock = 1
    /\ everPrimary = {}
    /\ req = Request(Undefined, Undefined)
    /\ resp = NoCall
    /\ pc = [c \in Clients |-> "idle"]
    /\ local = [c \in Clients |-> Idle]
    /\ calls = [c \in Clients |-> 0]

\* Line 155: the condition of the while loop.
LoopCondition(current) ==
    current.linkPrecedence = SECONDARY /\ current.linkedId # NullId

\* Lines 156-158: one iteration: the lookup of the parent, then break or advance.
WalkLookup ==
    /\ walk.status = "walking"
    /\ LoopCondition(walk.current[1])
    /\ walk.lookups < MaxLookups
    /\ LET parent == FindOneBy(store, walk.current[1].linkedId)
       IN  walk' = IF parent = <<>>
                   THEN [walk EXCEPT !.status = "returned", !.lookups = @ + 1]
                   ELSE [walk EXCEPT !.current = parent, !.lookups = @ + 1]
    /\ UNCHANGED <<store, clock, everPrimary, req, resp, pc, local, calls>>

\* Line 160: the loop condition is false and current is returned.
WalkReturn ==
    /\ walk.status = "walking"
    /\ ~LoopCondition(walk.current[1])
    /\ walk' = [walk EXCEPT !.status = "returned"]
    /\ UNCHANGED <<store, clock, everPrimary, req, resp, pc, local, calls>>

NextWalk == WalkLookup \/ WalkReturn

SpecWalk == InitWalk /\ [][NextWalk]_vars

\* ------------------------------------------------- vocabulary of the claims
\* The record a chain of linkedId values leads to from record i.
RECURSIVE RootFrom(_, _, _)
RootFrom(st, i, fuel) ==
    IF fuel = 0 \/ st[i].linkedId = NullId \/ st[i].linkedId \notin Ids(st)
    THEN i
    ELSE RootFrom(st, st[i].linkedId, fuel - 1)

ClusterRoot(st, i) == RootFrom(st, i, Len(st))

\* The cluster of root r: every record linked to r, directly or through other records.
ClusterOf(st, r) == {i \in Ids(st) : ClusterRoot(st, i) = r}

\* The roots of the clusters a submission matches in store st.
TouchedRoots(st, email, phoneNumber) ==
    {ClusterRoot(st, i) : i \in WhereMatches(st, email, phoneNumber)}

\* The id with the earliest createdAt among the ids S.
Oldest(st, S) == CHOOSE i \in S : \A j \in S : st[i].createdAt <= st[j].createdAt

\* The distinct truthy values of a column over the records S, as strings.
EmailsOf(st, S) == {st[i].email.s : i \in {j \in S : Truthy(st[j].email)}}
PhoneNumbersOf(st, S) == {st[i].phoneNumber.s : i \in {j \in S : Truthy(st[j].phoneNumber)}}

NoRepeats(q) == \A i, j \in 1..Len(q) : i # j => q[i] # q[j]

\* The step is a call that returned (every call sets req and resp).
CallReturned == resp'.status = "returned" /\ vars' # vars

\* --------------------------------------------------------------------- C1
\* C1: idempotence. After a call returned, the same submission made again saves
\* nothing (no record created, none rewritten) and returns the same view.
C1_Idempotent ==
    resp.status = "returned" =>
        \A ord \in Perms(WhereMatches(store, req.email, req.phoneNumber)) :
            LET again == Outcome(store, clock, req.email, req.phoneNumber, ord)
            IN  again.store = store /\ again.view = resp.contact

\* --------------------------------------------------------------------- C2
\* C2: no-orphan chain. No record's linkedId names a record that is secondary.
C2_NoOrphanChain ==
    \A i \in Ids(store) :
        store[i].linkedId # NullId => store[store[i].linkedId].linkPrecedence # SECONDARY

\* --------------------------------------------------------------------- C3
\* C3: set-union correctness. The returned emails are exactly the distinct
\* non-null emails of the resulting cluster (the primary and every record linked
\* to it directly or through a demoted primary), each once, the primary's own
\* first; the same for phoneNumbers.
C3_SetUnion ==
    resp.status = "returned" =>
        LET view == resp.contact
            primary == store[view.primaryContactId]
            cluster == ClusterOf(store, view.primaryContactId)
        IN  /\ Range(view.emails) = EmailsOf(store, cluster)
            /\ Range(view.phoneNumbers) = PhoneNumbersOf(store, cluster)
            /\ NoRepeats(view.emails) /\ NoRepeats(view.phoneNumbers)
            /\ Truthy(primary.email) => view.emails[1] = primary.email.s
            /\ Truthy(primary.phoneNumber) => view.phoneNumbers[1] = primary.phoneNumber.s

\* --------------------------------------------------------------------- C4
\* C4: seniority. The returned primaryContactId is the record with the earliest
\* createdAt among the records that are or ever were primary in the cluster the
\* submission touches; every record the submission matches lies in that cluster.
C4_Seniority ==
    resp.status = "returned" =>
        LET roots == TouchedRoots(store, req.email, req.phoneNumber)
            touched == UNION {ClusterOf(store, r) : r \in roots}
        IN  /\ roots = {resp.contact.primaryContactId}
            /\ resp.contact.primaryContactId = Oldest(store, touched \cap everPrimary)

\* Reached: a call returned the older of two primaries of a merged cluster, the
\* older one matched by phone number and alone in its cluster, the younger one
\* demoted after it had taken a secondary of its own.
C4_Witness ==
    /\ resp.status = "returned"
    /\ Len(store) = 3
    /\ everPrimary = {1, 2}
    /\ resp.contact.primaryContactId = 1
    /\ store[2].linkedId = 1
    /\ store[2].updatedAt = clock - 1 \/ store[2].updatedAt = clock - 2
    /\ store[3].linkedId = 2 \/ store[3].updatedAt > store[3].createdAt
    /\ store[1].phoneNumber = req.phoneNumber
    /\ store[1].email # req.email

\* --------------------------------------------------------------------- C5
\* The records that hold exactly the pair (email, phoneNumber).
HoldersOfPair(st, email, phoneNumber) ==
    {i \in Ids(st) : st[i].email = email /\ st[i].phoneNumber = phoneNumber}

\* C5: exact duplicate is a no-op. A call whose (email, phoneNumber), both
\* non-null, is already held by some record creates no record; and no two
\* records of one cluster ever hold the same non-null pair.
C5_ExactDuplicateNoOp ==
    [][CallReturned =>
        /\ ( /\ Truthy(req'.email) /\ Truthy(req'.phoneNumber)
             /\ HoldersOfPair(store, req'.email, req'.phoneNumber) # {} )
           => Len(store') = Len(store)
        /\ \A i, j \in Ids(store') :
              ( /\ i # j
                /\ ClusterRoot(store', i) = ClusterRoot(store', j)
                /\ Truthy(store'[i].email) /\ Truthy(store'[i].phoneNumber) )
              => ~ ( /\ store'[i].email = store'[j].email
                     /\ store'[i].phoneNumber = store'[j].phoneNumber )]_vars

\* --------------------------------------------------------------------- C6
\* C6: concurrent calls do not split an identity. No two primary records share
\* an email or a phone number, however the handlers interleave.
C6_NoSplitIdentity ==
    \A i, j \in Ids(store) :
        ( /\ i # j
          /\ store[i].linkPrecedence = PRIMARY
          /\ store[j].linkPrecedence = PRIMARY )
        => /\ ~(Truthy(store[i].email) /\ store[i].email = store[j].email)
           /\ ~(Truthy(store[i].phoneNumber) /\ store[i].phoneNumber = store[j].phoneNumber)

\* --------------------------------------------------------------------- C7
AbsentOrEmpty(v) == v.t \in {"undefined", "null"} \/ v = Str("")

\* Client c's handler answers in this step.
Answers(c) == pc'[c] = "done" /\ (pc[c] # "done" \/ calls'[c] # calls[c])

\* C7: validation failure has no effect. A request with both fields absent or
\* empty is answered 400 with the validation message in the step that receives
\* it, before any store call and with the store as it was; any failure other
\* than the validation error is answered 500 "Internal Server Error".
C7_ValidationNoEffect ==
    [][\A c \in Clients : Answers(c) =>
          LET l == local'[c]
          IN  /\ (AbsentOrEmpty(l.body.email) /\ AbsentOrEmpty(l.body.phoneNumber))
                 => /\ l.thrown = ValidationMessage
                    /\ l.status = 400 /\ l.error = ValidationMessage
                    /\ ~l.accessed
                    /\ calls'[c] # calls[c]
                    /\ store' = store /\ clock' = clock
              /\ l.thrown \notin {"", ValidationMessage}
                 => l.status = 500 /\ l.error = InternalServerError
              /\ l.thrown = "" => l.status = 200]_vars

\* Reached: one client was answered 400 for an empty email and no phone number
\* while the other, after it had saved a record, was answered 500.
C7_Witness ==
    \E c, d \in Clients :
        /\ pc[c] = "done" /\ pc[d] = "done"
        /\ local[c].body = Request(Str(""), Undefined)
        /\ local[c].status = 400
        /\ local[d].status = 500 /\ local[d].accessed
        /\ Len(store) > 0

\* --------------------------------------------------------------------- C8
\* C8: fresh identity. When no record holds the submitted email or phoneNumber,
\* the call appends exactly one record, primary, linkedId null, with the
\* submitted values (null for a field not submitted), leaves the other records
\* as they were, and returns the new id with only the submitted values and no
\* secondary ids.
C8_FreshIdentity ==
    [][( /\ CallReturned
         /\ \A i \in Ids(store) :
               /\ ~(Truthy(req'.email) /\ store[i].email = req'.email)
               /\ ~(Truthy(req'.phoneNumber) /\ store[i].phoneNumber = req'.phoneNumber) )
       => /\ Len(store') = Len(store) + 1
          /\ SubSeq(store', 1, Len(store)) = store
          /\ LET new == store'[Len(store')]
             IN  /\ new.id = Len(store')
                 /\ new.linkPrecedence = PRIMARY
                 /\ new.linkedId = NullId
                 /\ new.email = (IF Truthy(req'.email) THEN req'.email ELSE Null)
                 /\ new.phoneNumber =
                       (IF Truthy(req'.phoneNumber) THEN req'.phoneNumber ELSE Null)
                 /\ resp'.contact =
                       [primaryContactId |-> new.id,
                        emails |-> IF Truthy(req'.email) THEN <<req'.email.s>> ELSE <<>>,
                        phoneNumbers |-> IF Truthy(req'.phoneNumber)
                                         THEN <<req'.phoneNumber.s>> ELSE <<>>,
                        secondaryContactIds |-> <<>>]]_vars

\* Reached: a fresh identity with one field empty was added to a store that
\* already held another identity.
C8_Witness ==
    /\ resp.status = "returned"
    /\ Len(store) = 2
    /\ resp.contact.primaryContactId = 2
    /\ store[2].linkPrecedence = PRIMARY
    /\ req.email = Str("")
    /\ store[2].email = Null
    /\ store[1].linkPrecedence = PRIMARY

\* --------------------------------------------------------------------- C9
\* The records matched through the email alone / the phone number alone.
MatchesEmail(st, email) == {i \in Ids(st) : Truthy(email) /\ st[i].email = email}
MatchesPhoneNumber(st, phoneNumber) ==
    {i \in Ids(st) : Truthy(phoneNumber) /\ st[i].phoneNumber = phoneNumber}

\* The submission matches through exactly one field and supplies a value for
\* the other field that no record holds.
OneFieldNew(st, email, phoneNumber) ==
    \/ /\ MatchesEmail(st, email) # {}
       /\ Truthy(phoneNumber) /\ MatchesPhoneNumber(st, phoneNumber) = {}
    \/ /\ MatchesPhoneNumber(st, phoneNumber) # {}
       /\ Truthy(email) /\ MatchesEmail(st, email) = {}

\* C9: new secondary. When the submission matches a cluster through one field
\* and brings a new value for the other, the call appends exactly one record:
\* secondary, linked to the cluster's primary, carrying both submitted values,
\* and listed in the returned secondaryContactIds.
C9_NewSecondary ==
    [][(CallReturned /\ OneFieldNew(store, req'.email, req'.phoneNumber))
       => /\ Len(store') = Len(store) + 1
          /\ LET new == store'[Len(store')]
                 roots == TouchedRoots(store, req'.email, req'.phoneNumber)
             IN  /\ new.linkPrecedence = SECONDARY
                 /\ roots = {new.linkedId}
                 /\ store'[new.linkedId].linkPrecedence = PRIMARY
                 /\ new.email = req'.email
                 /\ new.phoneNumber = req'.phoneNumber
                 /\ new.id \in Range(resp'.contact.secondaryContactIds)
                 /\ resp'.contact.primaryContactId = new.linkedId]_vars

\* Reached: a secondary was added to a cluster that was matched only through
\* one of its secondaries.
C9_Witness ==
    /\ resp.status = "returned"
    /\ Len(store) = 3
    /\ store[2].linkedId = 1 /\ store[3].linkedId = 1
    /\ store[3].linkPrecedence = SECONDARY
    /\ store[3].email = req.email /\ store[3].phoneNumber = req.phoneNumber
    /\ Truthy(req.email) /\ Truthy(req.phoneNumber)
    /\ store[1].email # req.email /\ store[1].phoneNumber # req.phoneNumber
    /\ store[2].email = req.email /\ store[2].phoneNumber # req.phoneNumber
    /\ 3 \in Range(resp.contact.secondaryContactIds)

\* -------------------------------------------------------------------- C10
\* C10: merge on bridge. When the email belongs to one cluster and the phone
\* number to another, then after the call the oldest primary involved is still
\* primary with linkedId null, every other primary involved is secondary and
\* linked to it, and the response names the oldest as primaryContactId and the
\* demoted ones among secondaryContactIds.
C10_MergeOnBridge ==
    [][LET byEmail == {ClusterRoot(store, i) : i \in MatchesEmail(store, req'.email)}
           byPhone == {ClusterRoot(store, i) : i \in MatchesPhoneNumber(store, req'.phoneNumber)}
           involved == byEmail \cup byPhone
       IN  ( /\ CallReturned
             /\ byEmail # {} /\ byPhone # {} /\ byEmail \cap byPhone = {} )
           => LET oldest == Oldest(store, involved)
              IN  /\ store'[oldest].linkPrecedence = PRIMARY
                  /\ store'[oldest].linkedId = NullId
                  /\ \A r \in involved \ {oldest} :
                        /\ store'[r].linkPrecedence = SECONDARY
                        /\ store'[r].linkedId = oldest
                        /\ r \in Range(resp'.contact.secondaryContactIds)
                  /\ resp'.contact.primaryContactId = oldest]_vars

\* Reached: a call bridged two clusters, the older matched by its email and the
\* younger by the phone number, and demoted the younger primary.
C10_Witness ==
    /\ resp.status = "returned"
    /\ Len(store) = 3
    /\ everPrimary = {1, 2}
    /\ store[2].linkPrecedence = SECONDARY /\ store[2].linkedId = 1
    /\ store[2].updatedAt = clock - 1
    /\ resp.contact.primaryContactId = 1
    /\ 2 \in Range(resp.contact.secondaryContactIds)
    /\ Truthy(req.email) /\ Truthy(req.phoneNumber)
    /\ store[1].email = req.email /\ store[1].phoneNumber # req.phoneNumber
    /\ store[2].email # req.email

\* -------------------------------------------------------------------- C11
StrictlyAscending(q) == \A k \in 1..(Len(q) - 1) : q[k] < q[k + 1]

\* C11: secondaryContactIds is complete and sorted. After a returned call the
\* list is strictly ascending, does not contain primaryContactId, and its
\* elements are exactly the records of the resulting cluster other than the
\* primary.
C11_SecondaryIdsComplete ==
    resp.status = "returned" =>
        LET view == resp.contact
        IN  /\ StrictlyAscending(view.secondaryContactIds)
            /\ view.primaryContactId \notin Range(view.secondaryContactIds)
            /\ Range(view.secondaryContactIds) =
                  ClusterOf(store, view.primaryContactId) \ {view.primaryContactId}

\* -------------------------------------------------------------------- C12
\* C12: phone coercion at the transport. A body whose phoneNumber is a number
\* reaches identifyContact with the number's string form, and the request is
\* not rejected as carrying no phone number.
C12_PhoneCoercion ==
    \A c \in Clients :
        (pc[c] # "idle" /\ local[c].body.phoneNumber.t = "number")
        => /\ DataOf(local[c].body).phoneNumber = StringOf(local[c].body.phoneNumber)
           /\ ~(AbsentOrEmpty(local[c].body.email) /\ local[c].thrown = ValidationMessage)

\* -------------------------------------------------------------------- C13
\* C13: records are created only for new information. A call that matches some
\* record, and whose every supplied value is already held by a record (each
\* such record is matched, so it lies in the matched cluster), leaves the
\* number of records unchanged.
C13_OnlyNewInformation ==
    [][( /\ CallReturned
         /\ WhereMatches(store, req'.email, req'.phoneNumber) # {}
         /\ Truthy(req'.email) => MatchesEmail(store, req'.email) # {}
         /\ Truthy(req'.phoneNumber) => MatchesPhoneNumber(store, req'.phoneNumber) # {} )
       => Len(store') = Len(store)]_vars

\* -------------------------------------------------------------------- C14
\* C14: precedence and link agree. A record is primary exactly when its
\* linkedId is null, and every secondary's linkedId names a stored record.
C14_PrecedenceAndLinkAgree ==
    \A i \in Ids(store) :
        /\ store[i].linkPrecedence = PRIMARY <=> store[i].linkedId = NullId
        /\ store[i].linkPrecedence = SECONDARY => store[i].linkedId \in Ids(store)

\* Reached: a merge demoted primary 2 and re-pointed its secondary 3.
C14_Witness ==
    /\ Len(store) = 3
    /\ everPrimary = {1, 2}
    /\ store[1].linkPrecedence = PRIMARY
    /\ store[2].linkPrecedence = SECONDARY /\ store[2].linkedId = 1
    /\ store[3].linkPrecedence = SECONDARY /\ store[3].linkedId = 1
    /\ store[3].updatedAt > store[3].createdAt

\* -------------------------------------------------------------------- C15
\* C15: every record identifies someone. Each record has a non-empty email or a
\* non-empty phoneNumber, and no record stores an empty string: an empty field
\* of a submission is stored as null.
C15_RecordIdentifiesSomeone ==
    \A i \in Ids(store) :
        /\ Truthy(store[i].email) \/ Truthy(store[i].phoneNumber)
        /\ store[i].email # Str("") /\ store[i].phoneNumber # Str("")
        /\ store[i].email.t \in {"string", "null"}
        /\ store[i].phoneNumber.t \in {"string", "null"}

\* Reached: the last call submitted an empty email and created a record whose
\* email is null, in a store that also holds a record without phone number.
C15_Witness ==
    /\ resp.status = "returned"
    /\ req.email = Str("")
    /\ Len(store) >= 2
    /\ store[Len(store)].createdAt = clock - 1
    /\ store[Len(store)].email = Null
    /\ store[Len(store)].phoneNumber = req.phoneNumber
    /\ \E j \in Ids(store) : store[j].phoneNumber = Null

\* -------------------------------------------------------------------- C19
\* Following linkedId from record i reaches a primary within `fuel` steps,
\* through stored records only.
RECURSIVE LeadsToPrimary(_, _, _)
LeadsToPrimary(st, i, fuel) ==
    IF st[i].linkPrecedence = PRIMARY THEN TRUE
    ELSE IF fuel = 0 \/ st[i].linkedId \notin Ids(st) THEN FALSE
    ELSE LeadsToPrimary(st, st[i].linkedId, fuel - 1)

\* C19: links always lead to a primary. From every record the linkedId chain
\* reaches a primary record in fewer steps than there are records (no cycle,
\* no dangling reference).
C19_LinksLeadToPrimary ==
    \A i \in Ids(store) : LeadsToPrimary(store, i, Len(store) - 1)

\* Reached: a chain of two links, record 3 linked to the demoted primary 2,
\* which is linked to primary 1.
C19_Witness ==
    /\ Len(store) = 3
    /\ store[3].linkedId = 2
    /\ store[2].linkPrecedence = SECONDARY /\ store[2].linkedId = 1
    /\ store[1].linkPrecedence = PRIMARY

\* -------------------------------------------------------------------- C17
\* C17: frame of Resolve. No step removes a record or changes the id, email,
\* phoneNumber or createdAt of a stored record; deletedAt is null on every
\* record; and a stored record changes (in linkPrecedence, linkedId, updatedAt)
\* only if it belongs to a cluster the submission touches.
C17_Frame ==
    [][/\ Len(store') >= Len(store)
       /\ \A i \in Ids(store') : store'[i].deletedAt = Null
       /\ \A i \in Ids(store) :
             /\ store'[i].id = store[i].id
             /\ store'[i].email = store[i].email
             /\ store'[i].phoneNumber = store[i].phoneNumber
             /\ store'[i].createdAt = store[i].createdAt
             /\ store'[i] # store[i]
                => /\ CallReturned
                   /\ ClusterRoot(store, i) \in TouchedRoots(store, req'.email, req'.phoneNumber)]_vars

\* Reached: a call merged the clusters of records 1 and 2 and rewrote record 2,
\* while the unrelated primary 3 stayed as it was created.
C17_Witness ==
    /\ resp.status = "returned"
    /\ Len(store) = 3
    /\ everPrimary = {1, 2, 3}
    /\ store[2].linkPrecedence = SECONDARY /\ store[2].linkedId = 1
    /\ store[2].updatedAt = clock - 1
    /\ store[3].linkPrecedence = PRIMARY
    /\ store[3].updatedAt = store[3].createdAt

\* -------------------------------------------------------------------- C20
\* C20: demotion is permanent. A secondary record stays secondary in every
\* step, and a primary record becomes secondary only in a call whose
\* submission touches its cluster and the cluster of an older primary.
C20_DemotionPermanent ==
    [][\A i \in Ids(store) :
          /\ store[i].linkPrecedence = SECONDARY => store'[i].linkPrecedence = SECONDARY
          /\ (store[i].linkPrecedence = PRIMARY /\ store'[i].linkPrecedence = SECONDARY)
             => /\ CallReturned
                /\ i \in TouchedRoots(store, req'.email, req'.phoneNumber)
                /\ \E r \in TouchedRoots(store, req'.email, req'.phoneNumber) :
                      /\ store[r].linkPrecedence = PRIMARY
                      /\ store[r].createdAt < store[i].createdAt]_vars

\* Reached: record 2 was demoted by an earlier call, and a later call that
\* added record 3 to the cluster left it secondary.
C20_Witness ==
    /\ resp.status = "returned"
    /\ Len(store) = 3
    /\ everPrimary = {1, 2}
    /\ store[2].linkPrecedence = SECONDARY /\ store[2].linkedId = 1
    /\ store[2].updatedAt < store[3].createdAt
    /\ store[3].createdAt = clock - 1
    /\ store[3].linkedId = 1

\* -------------------------------------------------------------------- C18
\* The row of a saved entity is in the store with the columns that were saved.
Persisted(st, e) ==
    /\ e.row.id \in Ids(st)
    /\ st[e.row.id].email = e.row.email
    /\ st[e.row.id].phoneNumber = e.row.phoneNumber
    /\ st[e.row.id].linkedId = e.row.linkedId
    /\ st[e.row.id].linkPrecedence = e.row.linkPrecedence

\* C18: no rollback on abort. When a handler is answered after a store call
\* failed, the failing step leaves the store as the last completed save left
\* it, and every entity the handler had saved is still stored as saved (unless
\* a later save of another handler rewrote that row).
C18_NoRollback ==
    [][\A c \in Clients :
          (Answers(c) /\ local'[c].thrown \notin {"", ValidationMessage})
          => /\ store' = store /\ clock' = clock
             /\ \A k \in 1..Len(local'[c].saved) :
                   LET e == local'[c].saved[k]
                   IN  \/ Persisted(store', e)
                       \/ /\ e.row.id \in Ids(store')
                          /\ store'[e.row.id].updatedAt > e.at]_vars

\* Reached: a merge was aborted after its first save; primary 2 is demoted
\* and its secondary 3 still points to it, and the handler was answered 500.
C18_Witness ==
    \E c \in Clients :
        /\ pc[c] = "done" /\ local[c].status = 500
        /\ Len(local[c].saved) = 1
        /\ \A d \in Clients \ {c} : calls[d] = 0
        /\ Len(store) = 3
        /\ store[2].linkPrecedence = SECONDARY /\ store[2].linkedId = 1
        /\ store[3].linkPrecedence = SECONDARY /\ store[3].linkedId = 2

\* -------------------------------------------------------------------- C16
\* C16: the chain walk is bounded. On every table, a walk looks up at most as
\* many parents as the table has rows (a walk that ends never meets a row
\* twice), and a walk that returned stands on a row of the table.
C16_WalkBounded ==
    /\ walk.status # "none" => walk.lookups <= Len(store)
    /\ walk.status = "returned" => walk.current[1] \in Range(store)

====
